---- MODULE Spec2Model ----
(***************************************************************************)
(* A model of embed.ts: the command-line front end, embedFiles, the        *)
(* directory walk, setNestedValue on the nested file map, the generated    *)
(* JavaScript module and its base64 accessors.                             *)
(***************************************************************************)
EXTENDS Integers, Sequences, FiniteSets, TLC

VARIABLES
    entry,       \* "cli": run as a script (import.meta.main); "lib": embedFiles called by a caller
    argv,        \* the parsed arguments: [help, lang, input]
    cliPc,       \* position of the script body: "main", "awaiting", "exited" ("lib" when not a script)
    pc,          \* position of embedFiles: "idle", "loop", "switch", "write", "resolved", "rejected"
    inputPaths,  \* embedFiles' parameter
    language,    \* embedFiles' parameter
    idx,         \* index of the next input path of the for loop
    stack,       \* the active processDirectory calls, innermost last
    heap,        \* the objects: fileMap (root "files") and the two global functions it can reach
    content,     \* the generated text, NoText before the generator returned
    outFile,     \* what this run left on disk under embedded_files.<language>
    err,         \* the error embedFiles rejected with
    exitCode,    \* the code the process exits with (0 unless Deno.exit sets another)
    stdout,      \* lines printed with console.log
    stderr,      \* lines printed with console.error / console.warn
    writes,      \* number of Deno.writeTextFile calls made
    replaced,    \* some setNestedValue stored over an entry that existed
    lastSet,     \* the last setNestedValue call: mapping before, path, error
    codec        \* one file's bytes through readFile/base64/get/getString

vars == <<entry, argv, cliPc, pc, inputPaths, language, idx, stack, heap, content,
          outFile, err, exitCode, stdout, stderr, writes, replaced, lastSet, codec>>

(***************************************************************************)
(* Bounds                                                                  *)
(***************************************************************************)
MaxInputs == 2      \* longest list of input paths
MaxBytes == 3       \* longest file content drawn for the accessors
MaxChars == 2       \* longest text drawn for the accessors
MaxCalls == 3       \* setNestedValue calls in a row on one mapping

ByteVals == {0, 1, 65, 127, 128, 255}
CodePoints == {65, 127, 128, 233, 2047, 8364}

Undefined == "undefined"

RECURSIVE SeqsUpTo(_, _)
SeqsUpTo(S, n) ==
    IF n = 0 THEN {<<>>}
    ELSE LET shorter == SeqsUpTo(S, n - 1)
         IN shorter \cup {Append(s, x) : s \in {t \in shorter : Len(t) = n - 1}, x \in S}

(***************************************************************************)
(* Paths.  A path string is (abs ? "/" : "") followed by comps joined with *)
(* "/"; an empty component stands for a doubled or trailing slash.         *)
(***************************************************************************)
Path(abs, comps) == [abs |-> abs, comps |-> comps]

isAbsolute(p) == p.abs

RECURSIVE normalizeString(_, _, _)
normalizeString(comps, allowAboveRoot, acc) ==
    IF comps = <<>> THEN acc
    ELSE LET c == Head(comps)
             rest == Tail(comps)
         IN IF c = "" \/ c = "." THEN normalizeString(rest, allowAboveRoot, acc)
            ELSE IF c = ".."
                 THEN IF Len(acc) > 0 /\ acc[Len(acc)] # ".."
                      THEN normalizeString(rest, allowAboveRoot, SubSeq(acc, 1, Len(acc) - 1))
                      ELSE IF allowAboveRoot
                           THEN normalizeString(rest, allowAboveRoot, Append(acc, ".."))
                           ELSE normalizeString(rest, allowAboveRoot, acc)
                 ELSE normalizeString(rest, allowAboveRoot, Append(acc, c))

normalize(p) ==
    IF ~p.abs /\ p.comps = <<>> THEN Path(FALSE, <<".">>)
    ELSE LET trailingSeparator == Len(p.comps) = 0 \/ p.comps[Len(p.comps)] = ""
             n == normalizeString(p.comps, ~p.abs, <<>>)
             n2 == IF Len(n) = 0 /\ ~p.abs THEN <<".">> ELSE n
             n3 == IF Len(n2) > 0 /\ trailingSeparator THEN Append(n2, "") ELSE n2
         IN Path(p.abs, n3)

join(dirPath, name) == normalize(Path(dirPath.abs, dirPath.comps \o <<name>>))

\* normalizePath: normalize, then drop the leading slash of an absolute path
normalizePath(p) ==
    LET normalized == normalize(p)
    IN IF isAbsolute(normalized) THEN Path(FALSE, normalized.comps) ELSE normalized

\* normalizedPath.split("/").filter((part) => part !== "")
partsOf(p) == SelectSeq(normalizePath(p).comps, LAMBDA c : c # "")

(***************************************************************************)
(* The file system the run sees.  Keys are absolute canonical paths.       *)
(***************************************************************************)
Dir == [kind |-> "dir", bytes |-> <<>>, readable |-> TRUE]
File(b) == [kind |-> "file", bytes |-> b, readable |-> TRUE]
Locked(b) == [kind |-> "file", bytes |-> b, readable |-> FALSE]

Cwd == <<"w">>

FS ==
    (<<>> :> Dir) @@
    (<<"w">> :> Dir) @@
    (<<"w", "t">> :> File(<<72, 105>>)) @@
    (<<"w", "e">> :> File(<<>>)) @@
    (<<"w", "k">> :> Locked(<<7>>)) @@
    (<<"w", "d">> :> Dir) @@
    (<<"w", "d", "s">> :> Dir) @@
    (<<"w", "d", "s", "f">> :> File(<<0, 255, 128, 1>>)) @@
    (<<"w", "d", "s", "g">> :> File(<<200>>)) @@
    (<<"w", "d", "constructor">> :> Dir) @@
    (<<"w", "d", "constructor", "x">> :> File(<<66, 67, 68>>))

NoEnt == <<"ENOENT">>

RECURSIVE walk(_, _)
walk(cur, comps) ==
    IF cur = NoEnt THEN NoEnt
    ELSE IF comps = <<>> THEN cur
    ELSE LET c == Head(comps)
         IN IF FS[cur].kind # "dir" THEN NoEnt
            ELSE IF c = "" \/ c = "." THEN walk(cur, Tail(comps))
            ELSE IF c = ".."
                 THEN walk(IF cur = <<>> THEN cur ELSE SubSeq(cur, 1, Len(cur) - 1), Tail(comps))
                 ELSE IF (cur \o <<c>>) \in DOMAIN FS
                      THEN walk(cur \o <<c>>, Tail(comps))
                      ELSE NoEnt

\* the file system object a path string names, NoEnt when there is none
Resolve(p) == walk(IF p.abs THEN <<>> ELSE Cwd, p.comps)

\* Deno.stat(path): "NotFound", or the kind of the entry
stat(p) == IF Resolve(p) = NoEnt THEN "NotFound" ELSE FS[Resolve(p)].kind

\* Deno.readDir(dirPath): the names of the entries
readDir(p) ==
    {a[Len(a)] : a \in {b \in DOMAIN FS : Len(b) = Len(Resolve(p)) + 1
                                          /\ SubSeq(b, 1, Len(b) - 1) = Resolve(p)}}

(***************************************************************************)
(* base64.  A base64 text is a sequence of sextets 0..63, Pad for "=".     *)
(***************************************************************************)
Pad == 64

\* an encoder that treats a two-byte tail like a one-byte tail
RECURSIVE toBase64Short(_)
toBase64Short(b) ==
    IF Len(b) = 0 THEN <<>>
    ELSE IF Len(b) < 3
         THEN <<b[1] \div 4, (b[1] % 4) * 16, Pad, Pad>>
    ELSE <<b[1] \div 4, (b[1] % 4) * 16 + (b[2] \div 16),
           (b[2] % 16) * 4 + (b[3] \div 64), b[3] % 64>>
         \o toBase64Short(SubSeq(b, 4, Len(b)))

RECURSIVE toBase64(_)
toBase64(b) ==
    IF Len(b) = 0 THEN <<>>
    ELSE IF Len(b) = 1
         THEN <<b[1] \div 4, (b[1] % 4) * 16, Pad, Pad>>
    ELSE IF Len(b) = 2
         THEN <<b[1] \div 4, (b[1] % 4) * 16 + (b[2] \div 16), (b[2] % 16) * 4, Pad>>
    ELSE <<b[1] \div 4, (b[1] % 4) * 16 + (b[2] \div 16),
           (b[2] % 16) * 4 + (b[3] \div 64), b[3] % 64>> \o toBase64(SubSeq(b, 4, Len(b)))

RECURSIVE fromSextets(_)
fromSextets(s) ==
    IF Len(s) < 2 THEN <<>>
    ELSE IF Len(s) = 2 THEN <<s[1] * 4 + (s[2] \div 16)>>
    ELSE IF Len(s) = 3
         THEN <<s[1] * 4 + (s[2] \div 16), (s[2] % 16) * 16 + (s[3] \div 4)>>
    ELSE <<s[1] * 4 + (s[2] \div 16), (s[2] % 16) * 16 + (s[3] \div 4),
           (s[3] % 4) * 64 + s[4]>> \o fromSextets(SubSeq(s, 5, Len(s)))

\* atob(b64): the binary string, one char code 0..255 per decoded byte
atob(b64) ==
    LET n == Len(b64)
        cut == IF n % 4 = 0 /\ n >= 2 /\ b64[n] = Pad
               THEN IF b64[n - 1] = Pad THEN 2 ELSE 1
               ELSE 0
    IN fromSextets(SubSeq(b64, 1, n - cut))

\* bytes[i] = binary.charCodeAt(i), stored into a Uint8Array
Base64ToUint8Array(b64) ==
    LET binary == atob(b64)
    IN [i \in 1..Len(binary) |-> binary[i] % 256]

get(value) == Base64ToUint8Array(value)

getString(value) == atob(value)

\* the UTF-8 bytes of a text given as code points (what a text file holds)
RECURSIVE TextEncode(_)
TextEncode(s) ==
    IF s = <<>> THEN <<>>
    ELSE LET c == Head(s)
             b == IF c < 128 THEN <<c>>
                  ELSE IF c < 2048 THEN <<192 + (c \div 64), 128 + (c % 64)>>
                  ELSE <<224 + (c \div 4096), 128 + ((c \div 64) % 64), 128 + (c % 64)>>
         IN b \o TextEncode(Tail(s))

(***************************************************************************)
(* Objects.  A node is addressed by the root it hangs from followed by the *)
(* own keys that lead to it.  fileMap is the root "files"; "Object" and    *)
(* "Function" are the global functions every object inherits "constructor" *)
(* from.                                                                   *)
(***************************************************************************)
Map == [kind |-> "map", val |-> <<>>]
Leaf(v) == [kind |-> "leaf", val |-> v]
Fn == [kind |-> "fn", val |-> <<>>]

fileMap == <<"files">>

\* a map that starts with no entry at all
InitialFileMapNoRoot == (fileMap :> Map)

\* const fileMap: NestedFileMap = { "/": {} }
InitialFileMap == (fileMap :> Map) @@ (<<"files", "/">> :> Map)

Globals == (<<"Object">> :> Fn) @@ (<<"Function">> :> Fn)

\* keys every object inherits from its prototype chain, among the names used here
ProtoKeys == {"constructor"}

KindAt(h, a) == IF a \in DOMAIN h THEN h[a].kind ELSE Undefined

IsObject(h, a) == KindAt(h, a) \in {"map", "fn"}

\* key in current, for an object current
HasIn(h, current, key) == (current \o <<key>>) \in DOMAIN h \/ key \in ProtoKeys

\* current[key], for an object current
GetProp(h, current, key) ==
    IF (current \o <<key>>) \in DOMAIN h THEN current \o <<key>>
    ELSE IF key \in ProtoKeys
         THEN IF KindAt(h, current) = "map" THEN <<"Object">> ELSE <<"Function">>
         ELSE <<Undefined>>

Below(h, a) == {b \in DOMAIN h : Len(b) > Len(a) /\ SubSeq(b, 1, Len(a)) = a}

\* a loop that makes room by putting a mapping where a leaf is in the way
RECURSIVE descendOverLeaf(_, _, _, _)
descendOverLeaf(h, current, parts, i) ==
    IF i > Len(parts) - 1 THEN [heap |-> h, current |-> current, err |-> "none"]
    ELSE IF ~IsObject(h, current)
         THEN [heap |-> h, current |-> current, err |-> "TypeError"]
         ELSE LET at == current \o <<parts[i]>>
                  h1 == IF HasIn(h, current, parts[i]) /\ KindAt(h, at) # "leaf"
                        THEN h
                        ELSE (at :> Map) @@ h
              IN descendOverLeaf(h1, GetProp(h1, current, parts[i]), parts, i + 1)

\* the loop over all parts but the last, from index i on
RECURSIVE descend(_, _, _, _)
descend(h, current, parts, i) ==
    IF i > Len(parts) - 1 THEN [heap |-> h, current |-> current, err |-> "none"]
    ELSE IF ~IsObject(h, current)
         THEN [heap |-> h, current |-> current, err |-> "TypeError"]
         ELSE LET h1 == IF HasIn(h, current, parts[i])
                        THEN h
                        ELSE ((current \o <<parts[i]>>) :> Map) @@ h
              IN descend(h1, GetProp(h1, current, parts[i]), parts, i + 1)

\* current[parts[parts.length - 1]] = value, in a module (strict mode)
assignLast(h, current, parts, value) ==
    LET key == IF Len(parts) = 0 THEN Undefined ELSE parts[Len(parts)]
        target == current \o <<key>>
    IN IF ~IsObject(h, current)
       THEN [heap |-> h, err |-> "TypeError", replaced |-> FALSE]
       ELSE [heap |-> [a \in (DOMAIN h \ Below(h, target)) \cup {target} |->
                          IF a = target THEN Leaf(value) ELSE h[a]],
             err |-> "none",
             replaced |-> target \in DOMAIN h]

setNestedValue(h, path, value) ==
    LET parts == partsOf(path)
        start == IF isAbsolute(path) THEN GetProp(h, fileMap, "/") ELSE fileMap
        d == descend(h, start, parts, 1)
    IN IF d.err # "none"
       THEN [heap |-> d.heap, err |-> d.err, replaced |-> FALSE]
       ELSE assignLast(d.heap, d.current, parts, value)

\* JSON.stringify(fileMap, null, 2): the own entries below fileMap
stringify(h) ==
    [k \in {Tail(a) : a \in {b \in DOMAIN h : b[1] = "files"}} |-> h[fileMap \o k]]

\* the generated module text: its embed literal (the accessors are get and getString)
generateJS(h) == [made |-> TRUE, embed |-> stringify(h)]

NoText == [made |-> FALSE, embed |-> <<>>]

\* no file embedded_files.<language> was created by this run
Absent == [state |-> "absent", ext |-> Undefined, text |-> NoText]

(***************************************************************************)
(* The inputs of a run                                                     *)
(***************************************************************************)
InputChoices ==
    { Path(FALSE, <<"t">>),                  \* t
      Path(TRUE, <<"w", "t">>),              \* /w/t
      Path(FALSE, <<"d">>),                  \* d
      Path(FALSE, <<"d", "s">>),             \* d/s
      Path(TRUE, <<"w", "d", "", "s", "">>), \* /w/d//s/
      Path(FALSE, <<".", "d", "..", "e">>),  \* ./d/../e
      Path(FALSE, <<"m">>),                  \* m, which does not exist
      Path(FALSE, <<"k">>) }                 \* k, which cannot be read

InputLists == SeqsUpTo(InputChoices, MaxInputs)

Languages == {"js", "py", "ts", "rb"}

NoCall == [n |-> 0, before |-> InitialFileMap @@ Globals, path |-> Path(FALSE, <<>>),
           err |-> "none"]

CodecOff == [pc |-> "off", isText |-> FALSE, text |-> <<>>, bytes |-> <<>>,
             b64 |-> <<>>, bytesOut |-> <<>>, stringOut |-> <<>>]

Init ==
    /\ entry \in {"cli", "lib"}
    /\ argv \in [help : IF entry = "cli" THEN BOOLEAN ELSE {FALSE},
                 lang : IF entry = "cli" THEN Languages \cup {Undefined} ELSE Languages,
                 input : InputLists]
    /\ cliPc = IF entry = "cli" THEN "main" ELSE "lib"
    /\ pc = "idle"
    /\ inputPaths = <<>>
    /\ language = Undefined
    /\ idx = 1
    /\ stack = <<>>
    /\ heap = Globals
    /\ content = NoText
    /\ outFile = Absent
    /\ err = "none"
    /\ exitCode = 0
    /\ stdout = <<>>
    /\ stderr = <<>>
    /\ writes = 0
    /\ replaced = FALSE
    /\ lastSet = NoCall
    /\ codec = CodecOff

(***************************************************************************)
(* The script body (import.meta.main)                                      *)
(***************************************************************************)
\* !input, for the array args._ : an array, empty or not, is truthy
NotArray(a) == FALSE

\* !language, for a string or undefined
NotString(x) == x = Undefined \/ x = ""

callVars == <<inputPaths, language, idx, stack, heap, content, outFile, err, writes,
              replaced, lastSet>>

CliHelp ==
    /\ cliPc = "main"
    /\ argv.help
    /\ stdout' = Append(stdout, "Usage")
    /\ exitCode' = 0
    /\ cliPc' = "exited"
    /\ UNCHANGED <<entry, argv, pc, callVars, stderr, codec>>

CliMissing ==
    /\ cliPc = "main"
    /\ ~argv.help
    /\ (NotArray(argv.input) \/ NotString(argv.lang))
    /\ stderr' = Append(stderr, "Error: Both input and language must be specified.")
    /\ stdout' = Append(stdout, "Use --help for usage information.")
    /\ exitCode' = 1
    /\ cliPc' = "exited"
    /\ UNCHANGED <<entry, argv, pc, callVars, codec>>

CliUnsupported ==
    /\ cliPc = "main"
    /\ ~argv.help
    /\ ~(NotArray(argv.input) \/ NotString(argv.lang))
    /\ argv.lang \notin {"js", "ts", "py"}
    /\ stderr' = Append(stderr, "Error: Unsupported language.")
    /\ exitCode' = 1
    /\ cliPc' = "exited"
    /\ UNCHANGED <<entry, argv, pc, callVars, stdout, codec>>

\* the effect of calling embedFiles(paths, lang), up to its first await
Invoke(paths, lang) ==
    /\ pc' = "loop"
    /\ inputPaths' = paths
    /\ language' = lang
    /\ idx' = 1
    /\ heap' = InitialFileMap @@ heap

CliEmbed ==
    /\ cliPc = "main"
    /\ ~argv.help
    /\ ~(NotArray(argv.input) \/ NotString(argv.lang))
    /\ argv.lang \in {"js", "ts", "py"}
    /\ Invoke(argv.input, argv.lang)
    /\ cliPc' = "awaiting"
    /\ UNCHANGED <<entry, argv, stack, content, outFile, err, exitCode, stdout, stderr,
                   writes, replaced, lastSet, codec>>

\* .catch(console.error): the rejection is printed, and the script ends normally
CliCatch ==
    /\ cliPc = "awaiting"
    /\ pc = "rejected"
    /\ stderr' = Append(stderr, err)
    /\ cliPc' = "exited"
    /\ UNCHANGED <<entry, argv, pc, callVars, exitCode, stdout, codec>>

CliEnd ==
    /\ cliPc = "awaiting"
    /\ pc = "resolved"
    /\ cliPc' = "exited"
    /\ UNCHANGED <<entry, argv, pc, callVars, exitCode, stdout, stderr, codec>>

LibCall ==
    /\ cliPc = "lib"
    /\ pc = "idle"
    /\ Invoke(argv.input, argv.lang)
    /\ UNCHANGED <<entry, argv, cliPc, stack, content, outFile, err, exitCode, stdout,
                   stderr, writes, replaced, lastSet, codec>>

(***************************************************************************)
(* embedFiles and processDirectory                                         *)
(***************************************************************************)
\* Deno.readFile(path), base64, setNestedValue(fileMap, path, content)
StoreFile(path) ==
    LET f == FS[Resolve(path)]
        r == setNestedValue(heap, path, toBase64(f.bytes))
    IN IF ~f.readable
       THEN /\ pc' = "rejected"
            /\ err' = "PermissionDenied"
            /\ UNCHANGED <<heap, replaced, lastSet>>
       ELSE /\ heap' = r.heap
            /\ replaced' = (replaced \/ r.replaced)
            /\ lastSet' = [n |-> lastSet.n + 1, before |-> heap, path |-> path,
                           err |-> r.err]
            /\ IF r.err # "none"
               THEN pc' = "rejected" /\ err' = r.err
               ELSE UNCHANGED <<pc, err>>

fixedVars == <<entry, argv, cliPc, inputPaths, language, exitCode, codec>>

LoopStatError ==
    /\ pc = "loop" /\ stack = <<>> /\ idx <= Len(inputPaths)
    /\ stat(inputPaths[idx]) = "NotFound"
    /\ pc' = "rejected"
    /\ err' = "NotFound"
    /\ UNCHANGED <<fixedVars, idx, stack, heap, content, outFile, stdout, stderr, writes,
                   replaced, lastSet>>

LoopDirectory ==
    /\ pc = "loop" /\ stack = <<>> /\ idx <= Len(inputPaths)
    /\ stat(inputPaths[idx]) = "dir"
    /\ stack' = <<[dirPath |-> inputPaths[idx], todo |-> readDir(inputPaths[idx])]>>
    /\ idx' = idx + 1
    /\ UNCHANGED <<fixedVars, pc, heap, content, outFile, err, stdout, stderr, writes,
                   replaced, lastSet>>

LoopFile ==
    /\ pc = "loop" /\ stack = <<>> /\ idx <= Len(inputPaths)
    /\ stat(inputPaths[idx]) = "file"
    /\ StoreFile(inputPaths[idx])
    /\ idx' = idx + 1
    /\ UNCHANGED <<fixedVars, stack, content, outFile, stdout, stderr, writes>>

\* one iteration of for await (const entry of Deno.readDir(dirPath)), entry a directory
DirEntryDirectory ==
    /\ pc = "loop" /\ stack # <<>>
    /\ LET top == stack[Len(stack)]
       IN \E name \in top.todo :
            LET fullPath == join(top.dirPath, name)
            IN /\ stat(fullPath) = "dir"
               /\ stack' = Append([stack EXCEPT ![Len(stack)].todo = top.todo \ {name}],
                                  [dirPath |-> fullPath, todo |-> readDir(fullPath)])
    /\ UNCHANGED <<fixedVars, pc, idx, heap, content, outFile, err, stdout, stderr,
                   writes, replaced, lastSet>>

\* one iteration of the same loop, entry not a directory
DirEntryFile ==
    /\ pc = "loop" /\ stack # <<>>
    /\ LET top == stack[Len(stack)]
       IN \E name \in top.todo :
            LET fullPath == join(top.dirPath, name)
            IN /\ stat(fullPath) # "dir"
               /\ StoreFile(fullPath)
               /\ stack' = [stack EXCEPT ![Len(stack)].todo = top.todo \ {name}]
    /\ UNCHANGED <<fixedVars, idx, content, outFile, stdout, stderr, writes>>

\* the directory is exhausted: processDirectory returns
DirReturn ==
    /\ pc = "loop" /\ stack # <<>>
    /\ stack[Len(stack)].todo = {}
    /\ stack' = SubSeq(stack, 1, Len(stack) - 1)
    /\ UNCHANGED <<fixedVars, pc, idx, heap, content, outFile, err, stdout, stderr,
                   writes, replaced, lastSet>>

AtSwitch == pc = "loop" /\ stack = <<>> /\ idx > Len(inputPaths)

SwitchJS ==
    /\ AtSwitch
    /\ language = "js"
    /\ content' = generateJS(heap)
    /\ pc' = "write"
    /\ UNCHANGED <<fixedVars, idx, stack, heap, outFile, err, stdout, stderr, writes,
                   replaced, lastSet>>

\* a switch that creates the output file before the generator runs
SwitchPyWritesFirst ==
    /\ pc = "loop" /\ stack = <<>> /\ idx > Len(inputPaths)
    /\ language = "py"
    /\ stderr' = Append(stderr, "Python is not tested yet !!!")
    /\ writes' = writes + 1
    /\ outFile' = [state |-> "truncated", ext |-> language, text |-> NoText]
    /\ pc' = "rejected"
    /\ err' = "TODO"
    /\ UNCHANGED <<entry, argv, cliPc, inputPaths, language, exitCode, codec, idx, stack,
                   heap, content, stdout, replaced, lastSet>>

\* case "py": the warning, then generatePython throws
SwitchPy ==
    /\ AtSwitch
    /\ language = "py"
    /\ stderr' = Append(stderr, "Python is not tested yet !!!")
    /\ pc' = "rejected"
    /\ err' = "TODO"
    /\ UNCHANGED <<fixedVars, idx, stack, heap, content, outFile, stdout, writes,
                   replaced, lastSet>>

SwitchDefault ==
    /\ AtSwitch
    /\ language \notin {"js", "py"}
    /\ pc' = "rejected"
    /\ err' = "Unsupported language"
    /\ UNCHANGED <<fixedVars, idx, stack, heap, content, outFile, stdout, stderr, writes,
                   replaced, lastSet>>

WriteDone ==
    /\ pc = "write"
    /\ writes' = writes + 1
    /\ outFile' = [state |-> "written", ext |-> language, text |-> content]
    /\ stdout' = Append(stdout, "Embedded data written")
    /\ pc' = "resolved"
    /\ UNCHANGED <<fixedVars, idx, stack, heap, content, err, stderr, replaced, lastSet>>

\* Deno.writeTextFile fails: nothing was created, or the file was left truncated
WriteError ==
    /\ pc = "write"
    /\ writes' = writes + 1
    /\ outFile' \in {Absent, [state |-> "truncated", ext |-> language, text |-> NoText]}
    /\ pc' = "rejected"
    /\ err' = "WriteFailed"
    /\ UNCHANGED <<fixedVars, idx, stack, heap, content, stdout, stderr, replaced,
                   lastSet>>

Next ==
    \/ CliHelp \/ CliMissing \/ CliUnsupported \/ CliEmbed \/ CliCatch \/ CliEnd
    \/ LibCall
    \/ LoopStatError \/ LoopDirectory \/ LoopFile
    \/ DirEntryDirectory \/ DirEntryFile \/ DirReturn
    \/ SwitchJS \/ SwitchPy \/ SwitchDefault
    \/ WriteDone \/ WriteError

Spec == Init /\ [][Next]_vars

(***************************************************************************)
(* setNestedValue on its own: calls in a row on one mapping, with paths    *)
(* and values drawn from small sets.                                       *)
(***************************************************************************)
SetPaths ==
    { Path(FALSE, <<"a">>),                  \* a
      Path(FALSE, <<"a", "b">>),             \* a/b
      Path(FALSE, <<"a", "b", "c">>),        \* a/b/c
      Path(FALSE, <<"a", "..", "b", "c">>),  \* a/../b/c
      Path(TRUE, <<"a">>),                   \* /a
      Path(TRUE, <<"a", "b">>),              \* /a/b
      Path(FALSE, <<"constructor", "a">>) }  \* constructor/a

SetValues == {toBase64(<<>>), toBase64(<<72, 105>>)}

InitSet ==
    /\ entry = "lib"
    /\ argv = [help |-> FALSE, lang |-> "js", input |-> <<>>]
    /\ cliPc = "lib"
    /\ pc = "idle"
    /\ inputPaths = <<>>
    /\ language = Undefined
    /\ idx = 1
    /\ stack = <<>>
    /\ heap = InitialFileMap @@ Globals
    /\ content = NoText
    /\ outFile = Absent
    /\ err = "none"
    /\ exitCode = 0
    /\ stdout = <<>>
    /\ stderr = <<>>
    /\ writes = 0
    /\ replaced = FALSE
    /\ lastSet = NoCall
    /\ codec = CodecOff

SetCall ==
    /\ lastSet.n < MaxCalls
    /\ \E path \in SetPaths, value \in SetValues :
         LET r == setNestedValue(heap, path, value)
         IN /\ heap' = r.heap
            /\ replaced' = (replaced \/ r.replaced)
            /\ lastSet' = [n |-> lastSet.n + 1, before |-> heap, path |-> path,
                           err |-> r.err]
    /\ UNCHANGED <<entry, argv, cliPc, pc, inputPaths, language, idx, stack, content,
                   outFile, err, exitCode, stdout, stderr, writes, codec>>

NextSet == SetCall

SpecSet == InitSet /\ [][NextSet]_vars

(***************************************************************************)
(* One file through the builder's encoding and the generated accessors.    *)
(***************************************************************************)
InitCodec ==
    /\ entry = "lib"
    /\ argv = [help |-> FALSE, lang |-> "js", input |-> <<>>]
    /\ cliPc = "lib"
    /\ pc = "idle"
    /\ inputPaths = <<>>
    /\ language = Undefined
    /\ idx = 1
    /\ stack = <<>>
    /\ heap = Globals
    /\ content = NoText
    /\ outFile = Absent
    /\ err = "none"
    /\ exitCode = 0
    /\ stdout = <<>>
    /\ stderr = <<>>
    /\ writes = 0
    /\ replaced = FALSE
    /\ lastSet = NoCall
    /\ \/ \E b \in SeqsUpTo(ByteVals, MaxBytes) :
            codec = [CodecOff EXCEPT !.pc = "file", !.bytes = b]
       \/ \E t \in SeqsUpTo(CodePoints, MaxChars) :
            codec = [CodecOff EXCEPT !.pc = "file", !.isText = TRUE, !.text = t,
                                     !.bytes = TextEncode(t)]

mainVars == <<entry, argv, cliPc, pc, inputPaths, language, idx, stack, heap, content,
              outFile, err, exitCode, stdout, stderr, writes, replaced, lastSet>>

\* Deno.readFile(path).then((bytes) => Buffer.from(bytes).toString("base64"))
CodecEmbed ==
    /\ codec.pc = "file"
    /\ codec' = [codec EXCEPT !.pc = "leaf", !.b64 = toBase64(codec.bytes)]
    /\ UNCHANGED mainVars

CodecGet ==
    /\ codec.pc = "leaf"
    /\ codec' = [codec EXCEPT !.pc = "got", !.bytesOut = get(codec.b64)]
    /\ UNCHANGED mainVars

CodecGetString ==
    /\ codec.pc = "leaf"
    /\ codec' = [codec EXCEPT !.pc = "gotString", !.stringOut = getString(codec.b64)]
    /\ UNCHANGED mainVars

NextCodec == CodecEmbed \/ CodecGet \/ CodecGetString

SpecCodec == InitCodec /\ [][NextCodec]_vars

(***************************************************************************)
(* Properties                                                              *)
(***************************************************************************)
Finished == pc \in {"resolved", "rejected"}

\* C1: whatever the input paths, a call of embedFiles with a language other than
\* js and py ends rejected with "Unsupported language", and no output file exists.
C1_UnsupportedLanguageReported ==
    (Finished /\ language \notin {"js", "py"})
        => (pc = "rejected" /\ err = "Unsupported language" /\ outFile = Absent)

\* C2: a run in which an insertion stored over an entry the mapping already had
\* never gets to generate or write output (it fails with a path conflict instead).
C2_ConflictFailsTheBuild ==
    replaced => (pc \notin {"write", "resolved"} /\ outFile = Absent)

\* C3: a command line without positional input paths or without --lang never calls
\* embedFiles, writes nothing, and exits non-zero with a diagnostic.
C3_MissingArgumentsAreUsageError ==
    (entry = "cli" /\ ~argv.help /\ (Len(argv.input) = 0 \/ argv.lang = Undefined))
        => /\ pc = "idle"
           /\ outFile = Absent
           /\ cliPc = "exited" => (exitCode # 0 /\ stderr # <<>>)

\* C4: a command-line run that ends without a written output file exits with a
\* non-zero code and has printed a diagnostic.
C4_FailedRunExitsNonZero ==
    (entry = "cli" /\ cliPc = "exited" /\ ~argv.help /\ outFile.state # "written")
        => (exitCode # 0 /\ stderr # <<>>)

RootOnly(embed) == DOMAIN embed = {<<>>, <<"/">>} /\ embed[<<"/">>] = Map

\* C5 (as the spec has it): with zero input paths and js, the written mapping has
\* no keys at all.
C5_EmptyInputGivesMappingWithoutKeys ==
    (pc = "resolved" /\ inputPaths = <<>>) => DOMAIN outFile.text.embed = {<<>>}

\* C5 (amended): with zero input paths and js, embedFiles fails at nothing before the
\* write, and the mapping it generates and writes holds no file: its only key is the
\* reserved root key "/", mapped to an empty mapping.
C5_EmptyInputGivesRootOnlyMapping ==
    (Finished /\ inputPaths = <<>> /\ language = "js")
        => /\ content.made /\ RootOnly(content.embed)
           /\ pc = "rejected" => err = "WriteFailed"
           /\ pc = "resolved" => (outFile.state = "written" /\ outFile.text = content)

C5_Witness ==
    pc = "resolved" /\ inputPaths = <<>> /\ language = "js" /\ outFile.state = "written"

\* the regular files reachable from an input path, each with the key path its
\* normalized segments give and the base64 text of its bytes
ExpectedLeaves(p) ==
    LET r == Resolve(p)
        under == {f \in DOMAIN FS : /\ FS[f].kind = "file"
                                    /\ Len(f) >= Len(r)
                                    /\ SubSeq(f, 1, Len(r)) = r}
    IN {[key |-> (IF p.abs THEN <<"/">> ELSE <<>>)
                    \o partsOf(Path(p.abs, p.comps \o SubSeq(f, Len(r) + 1, Len(f)))),
         val |-> toBase64(FS[f].bytes)] : f \in under}

HasLeaf(embed, e) == e.key \in DOMAIN embed /\ embed[e.key] = Leaf(e.val)

\* C6: after a successful build every regular file reachable from the input paths
\* has a leaf at the key path of its normalized segments (under "/" for an absolute
\* path), holding the base64 text of its bytes.
C6_EveryFileHasItsLeaf ==
    pc = "resolved"
        => \A i \in 1..Len(inputPaths) :
             \A e \in ExpectedLeaves(inputPaths[i]) : HasLeaf(outFile.text.embed, e)

\* C7: get applied to a file's leaf returns exactly the file's bytes.
C7_ByteRoundTrip ==
    codec.pc = "got" => codec.bytesOut = codec.bytes

C7_Witness ==
    /\ codec.pc = "got"
    /\ Len(codec.bytes) = 2
    /\ codec.bytes[2] = 255
    /\ codec.b64[4] = Pad

\* C8: getString applied to the leaf of a UTF-8 text file returns exactly the text.
C8_TextRoundTrip ==
    (codec.pc = "gotString" /\ codec.isText) => codec.stringOut = codec.text

LeafOnTheWay(h, path) ==
    LET parts == partsOf(path)
        start == IF path.abs THEN <<"files", "/">> ELSE fileMap
    IN \E i \in 1..(Len(parts) - 1) : KindAt(h, start \o SubSeq(parts, 1, i)) = "leaf"

\* C10: a setNestedValue call whose path runs through a leaf at a segment before
\* the last fails with an error and leaves the mapping exactly as it was.
C10_LeafInTheWayFails ==
    (lastSet.n > 0 /\ LeafOnTheWay(lastSet.before, lastSet.path))
        => (lastSet.err # "none" /\ heap = lastSet.before)

C10_Witness ==
    /\ lastSet.n > 0
    /\ LeafOnTheWay(lastSet.before, lastSet.path)
    /\ Len(partsOf(lastSet.path)) = 3
    /\ lastSet.err = "TypeError"

====
